---- MODULE Spec2Model ----
(***************************************************************************)
(* ManageSieve HAVESPACE (capacity check) of the mail server:              *)
(* Session::handle_havespace, crates/managesieve/src/op/havespace.rs.      *)
(*                                                                         *)
(* One session is modelled in full.  The handler is an async fn with two   *)
(* suspension points (validate_name(..).await and get_used_quota(..)       *)
(* .await); the code between two suspension points is one action.  Other   *)
(* sessions of the same account appear as writes to the script store.      *)
(*                                                                         *)
(* Machine integers are scaled down: usize and u64 are WordBits wide and   *)
(* i64 is the two's complement integer of the same width, so that the      *)
(* casts `size as i64`, `quota as i64` and the i64 addition of lines 46-52 *)
(* wrap exactly where the 64-bit ones do.                                  *)
(***************************************************************************)
EXTENDS Integers, Sequences, FiniteSets, TLC

\* ------------------------------------------------------------- bounds
WordBits == 3
MaxScriptSize == 2
MaxQuota == 3
MaxCommands == 3

\* ------------------------------------------------------ machine integers
RECURSIVE Pow2(_)
Pow2(n) == IF n = 0 THEN 1 ELSE 2 * Pow2(n - 1)

UsizeMax == Pow2(WordBits) - 1
I64Max == Pow2(WordBits - 1) - 1
I64Min == 0 - Pow2(WordBits - 1)

\* `x as i64` of an unsigned word x: the same bits read as two's complement.
as_i64(x) == IF x > I64Max THEN x - Pow2(WordBits) ELSE x

\* An i64 result reduced to the width (what a wrapping addition leaves).
wrap_i64(x) == ((x - I64Min) % Pow2(WordBits)) + I64Min

\* ------------------------------------------------------------- tokens
\* A token is a string; it is modelled as the sequence of its characters.
DigitVal ==
    ("0" :> 0) @@ ("1" :> 1) @@ ("2" :> 2) @@ ("3" :> 3) @@ ("4" :> 4) @@
    ("5" :> 5) @@ ("6" :> 6) @@ ("7" :> 7) @@ ("8" :> 8) @@ ("9" :> 9)

IsDigit(c) == c \in DOMAIN DigitVal

ParseErr == [ok |-> FALSE, val |-> 0]

\* The digits of str from position i on, accumulated into acc with a checked
\* multiply-add (str::parse::<usize>: InvalidDigit and PosOverflow are errors).
RECURSIVE parse_digits(_, _, _)
parse_digits(str, i, acc) ==
    IF i > Len(str) THEN [ok |-> TRUE, val |-> acc]
    ELSE IF ~IsDigit(str[i]) THEN ParseErr
    ELSE IF acc * 10 + DigitVal[str[i]] > UsizeMax THEN ParseErr
    ELSE parse_digits(str, i + 1, acc * 10 + DigitVal[str[i]])

\* str.parse::<usize>(): empty is an error, a lone sign is an error, a leading
\* "+" is skipped, a leading "-" is an invalid digit of an unsigned type.
parse_usize(str) ==
    IF Len(str) = 0 THEN ParseErr
    ELSE IF Len(str) = 1 /\ str[1] \in {"+", "-"} THEN ParseErr
    ELSE IF str[1] = "+" THEN parse_digits(str, 2, 0)
    ELSE parse_digits(str, 1, 0)

\* Token::unwrap_string().ok(): the tokenizer delivers un-escaped strings, so
\* the unwrapped value is the token itself.
unwrap_string(tok) == tok

\* ------------------------------------------------------------ responses
NoCode == "None"
QuotaMaxSize == "QuotaMaxSize"

Response(ok, cause, details, code) ==
    [ok |-> ok, cause |-> cause, details |-> details, code |-> code]

\* StatusResponse::ok("")
StatusOk == Response(TRUE, "None", "", NoCode)

\* trc::Cause::ManageSieve.into_err().details(d)
ManageSieveErr(d) == Response(FALSE, "ManageSieve", d, NoCode)

ErrExpectedName == ManageSieveErr("Expected script name as a parameter.")
ErrExpectedSize == ManageSieveErr("Expected script size as a parameter.")
ErrInvalidSize == ManageSieveErr("Invalid size parameter.")
ErrQuotaExceeded ==
    Response(FALSE, "ManageSieve", "Quota exceeded.", QuotaMaxSize)

\* Errors made outside the handler.
ErrInvalidName == Response(FALSE, "InvalidName", "Invalid script name.", NoCode)
ErrStorage == Response(FALSE, "StorageFailure", "", NoCode)
ErrUnauthorized == Response(FALSE, "Unauthorized", "Not authenticated.", NoCode)

\* Not responses: no command yet, a command in flight, a command abandoned,
\* and the session task's panic (arithmetic overflow with overflow checks on).
NoResult == Response(FALSE, "NoResult", "", NoCode)
Pending == Response(FALSE, "Pending", "", NoCode)
Abandoned == Response(FALSE, "Abandoned", "", NoCode)
Panicked == Response(FALSE, "Panic", "attempt to add with overflow", NoCode)

\* -------------------------------------------------------- Name Validator
MaxNameLen == 2
ReservedChars == {"/", "\n"}

\* The rules of the Name Validator that need no storage: non-empty, bounded
\* length, no control character or structural delimiter.
name_rules_ok(nm) ==
    /\ Len(nm) > 0
    /\ Len(nm) <= MaxNameLen
    /\ \A i \in 1..Len(nm) : nm[i] \notin ReservedChars

\* ---------------------------------------------------------- script store
\* The storage collaborator: the account's scripts, name -> size in bytes.
Absent == 0 - 1
StoredNames == {<<"s">>, <<"t">>}
ScriptSizes == 1..MaxScriptSize

RECURSIVE sum_sizes(_, _)
sum_sizes(store, names) ==
    IF names = {} THEN 0
    ELSE LET n == CHOOSE x \in names : TRUE
         IN  (IF store[n] = Absent THEN 0 ELSE store[n])
             + sum_sizes(store, names \ {n})

\* usedQuota(accountId): the current sum of the stored script sizes.
used_quota(store) == sum_sizes(store, DOMAIN store)

\* ---------------------------------------------------------------- inputs
\* The decimal digits of n, most significant first.
RECURSIVE ToDec(_)
ToDec(n) ==
    IF n < 10 THEN <<CHOOSE c \in DOMAIN DigitVal : DigitVal[c] = n>>
    ELSE Append(ToDec(n \div 10),
                CHOOSE c \in DOMAIN DigitVal : DigitVal[c] = n % 10)

TooLongName == [i \in 1..(MaxNameLen + 1) |-> "s"]
InvalidNames == {<<"s", "/">>, <<>>, TooLongName}
NameTokens == StoredNames \cup InvalidNames
SizeTokens ==
    {ToDec(n) : n \in (0..(I64Max + 2)) \cup {UsizeMax, UsizeMax + 1}}
    \cup {<<"+", "1">>, <<"-", "1">>, <<"0", "1">>, <<"1", "a">>, <<"+">>,
          <<>>, <<"9", "9">>}
ExtraTokens == {<<"x">>}
Requests ==
    {<<>>}
    \cup {<<n>> : n \in NameTokens}
    \cup {<<<<"s">>, s>> : s \in SizeTokens}
    \cup {<<n, s>> : n \in InvalidNames,
                     s \in {<<"1">>, <<"-", "1">>, <<"1", "a">>,
                            ToDec(I64Max + 1), ToDec(UsizeMax + 1)}}
    \cup {<<n, s, x>> : n \in {<<"s">>, <<>>}, s \in {<<"1">>, <<"1", "a">>},
                        x \in ExtraTokens}

\* The ceilings an access token carries.  The declaration of AccessToken is
\* outside havespace.rs; the ceilings stay within the part on which
\* `quota as i64` (line 52) keeps the value whatever the unsigned width of
\* the field is.
Quotas == {q \in 0..MaxQuota : q <= I64Max}

\* ----------------------------------------------------------------- state
VARIABLES
    overflow_checks, \* the build: TRUE when i64 `+` panics on overflow
    state,           \* Session.state: NotAuthenticated, Authenticated, Closing
    quota,           \* access_token.quota of the authenticated session
    scripts,         \* the storage collaborator's script store of the account
    pc,              \* where the handler is: idle, validate_name, get_used_quota
    tokens,          \* request.tokens of the current (or last) request
    result,          \* what the current (or last) command returned
    calls,           \* storage calls the current (or last) command has issued
    failed,          \* the storage call of this command that failed, or "none"
    used_seen,       \* what get_used_quota returned to this command, or Absent
    repeat_of,       \* history: the previous command's outcome, kept while the
                     \* request is the same and nothing was written in between
    quiet,           \* history: no write since the last command completed
    arrived,         \* the wire: how many requests the client has sent
    accepted,        \* the wire: how many of them the dispatcher has taken
    running,         \* the wire: the commands taken and not yet ended
    outbox           \* the wire: the commands answered, in the order written

\* The requests are numbered 1, 2, ... in the order the client sent them.
wire == <<arrived, accepted, running, outbox>>

vars ==
    <<overflow_checks, state, quota, scripts, pc, tokens, result, calls,
      failed, used_seen, repeat_of, quiet, arrived, accepted, running, outbox>>

NoRepeat == [out |-> NoResult, failed |-> "none"]

\* ------------------------------------------------------- handle_havespace
\* parse_request with a missing size token read as size 0.
parse_request_default_size(toks) ==
    IF Len(toks) < 1
    THEN [err |-> ErrExpectedName, name |-> <<>>, size |-> 0]
    ELSE IF Len(toks) < 2
    THEN [err |-> NoResult, name |-> unwrap_string(toks[1]), size |-> 0]
    ELSE IF ~parse_usize(unwrap_string(toks[2])).ok
    THEN [err |-> ErrInvalidSize, name |-> unwrap_string(toks[1]), size |-> 0]
    ELSE [err |-> NoResult, name |-> unwrap_string(toks[1]),
          size |-> parse_usize(unwrap_string(toks[2])).val]

\* parse_request with a size token that does not parse read as size 0.
parse_request_lenient(toks) ==
    IF Len(toks) < 1
    THEN [err |-> ErrExpectedName, name |-> <<>>, size |-> 0]
    ELSE IF Len(toks) < 2
    THEN [err |-> ErrExpectedSize, name |-> unwrap_string(toks[1]), size |-> 0]
    ELSE [err |-> NoResult, name |-> unwrap_string(toks[1]),
          size |-> parse_usize(unwrap_string(toks[2])).val]

\* parse_request with a request of more than two tokens rejected.
parse_request_exact(toks) ==
    IF Len(toks) < 1
    THEN [err |-> ErrExpectedName, name |-> <<>>, size |-> 0]
    ELSE IF Len(toks) < 2
    THEN [err |-> ErrExpectedSize, name |-> unwrap_string(toks[1]), size |-> 0]
    ELSE IF Len(toks) > 2 \/ ~parse_usize(unwrap_string(toks[2])).ok
    THEN [err |-> ErrInvalidSize, name |-> unwrap_string(toks[1]), size |-> 0]
    ELSE [err |-> NoResult, name |-> unwrap_string(toks[1]),
          size |-> parse_usize(unwrap_string(toks[2])).val]

\* Lines 15-37: the two positional tokens.  err is the early return, or
\* NoResult when both were parsed.
parse_request(toks) ==
    IF Len(toks) < 1
    THEN [err |-> ErrExpectedName, name |-> <<>>, size |-> 0]
    ELSE IF Len(toks) < 2
    THEN [err |-> ErrExpectedSize, name |-> unwrap_string(toks[1]), size |-> 0]
    ELSE IF ~parse_usize(unwrap_string(toks[2])).ok
    THEN [err |-> ErrInvalidSize, name |-> unwrap_string(toks[1]), size |-> 0]
    ELSE [err |-> NoResult, name |-> unwrap_string(toks[1]),
          size |-> parse_usize(unwrap_string(toks[2])).val]

name == parse_request(tokens).name
size == parse_request(tokens).size

\* quota_decision with the quota error built without its response code.
quota_decision_uncoded(sz, used, q) ==
    LET sum == as_i64(sz) + used
    IN  IF (sum > I64Max \/ sum < I64Min) /\ overflow_checks THEN Panicked
        ELSE IF wrap_i64(sum) <= as_i64(q) THEN StatusOk
        ELSE ManageSieveErr("Quota exceeded.")

\* Lines 45-60 once get_used_quota has returned used: the i64 sum, which
\* overflows to a panic (overflow checks on) or wraps (off), against the
\* ceiling.
quota_decision(sz, used, q) ==
    LET sum == as_i64(sz) + used
    IN  IF (sum > I64Max \/ sum < I64Min) /\ overflow_checks THEN Panicked
        ELSE IF wrap_i64(sum) <= as_i64(q) THEN StatusOk
        ELSE ErrQuotaExceeded

\* after_used_quota with the storage failure swallowed (usage read as 0).
after_used_quota_swallowed(io_ok, sz, used, q) ==
    IF ~io_ok THEN quota_decision(sz, 0, q) ELSE quota_decision(sz, used, q)

\* Lines 46-60 around the oracle's answer: `?` on line 51 returns a storage
\* failure to the caller, and a value read goes into the decision.
after_used_quota(io_ok, sz, used, q) ==
    IF ~io_ok THEN ErrStorage ELSE quota_decision(sz, used, q)

\* is_unlimited without the sentinel: every ceiling is compared.
is_unlimited_never(q) == FALSE

\* Line 45: a ceiling of 0 ends the condition before get_used_quota is called.
is_unlimited(q) == q = 0

\* sync_part without the call of validate_name (line 42).
sync_part_unvalidated(req) ==
    IF parse_request(req).err # NoResult THEN parse_request(req).err
    ELSE Pending

\* sync_part with the name validated as soon as it is read, before the size
\* token is looked at.
sync_part_name_first(req) ==
    IF Len(req) < 1 THEN ErrExpectedName
    ELSE IF ~name_rules_ok(unwrap_string(req[1])) THEN ErrInvalidName
    ELSE IF parse_request(req).err # NoResult THEN parse_request(req).err
    ELSE Pending

\* Lines 15-42 up to the first suspension point: the early return of the
\* token parsing, then of validate_name's rules, or Pending when the handler
\* is suspended on validate_name's storage call.
sync_part(req) ==
    IF parse_request(req).err # NoResult THEN parse_request(req).err
    ELSE IF ~name_rules_ok(parse_request(req).name) THEN ErrInvalidName
    ELSE Pending

\* may_run_handler without the check of the session state.
may_run_always(st) == TRUE

\* The dispatcher runs a script-management handler for an authenticated
\* session only.
may_run_handler(st) == st = "Authenticated"

\* store_after with a record created for the checked name.
store_after_placeholder(store, nm, sz, rsp) ==
    IF rsp = StatusOk /\ nm \in DOMAIN store /\ store[nm] = Absent
    THEN [store EXCEPT ![nm] = 0]
    ELSE store

\* store_after with the checked size reserved against the quota.
store_after_reserved(store, nm, sz, rsp) ==
    IF rsp = StatusOk /\ nm \in DOMAIN store
    THEN [store EXCEPT ![nm] = (IF @ = Absent THEN 0 ELSE @) + sz]
    ELSE store

\* Lines 14-61 hold no write to the store: the store after a command that
\* returned rsp.
store_after(store, nm, sz, rsp) == store

\* state_after with the session closed on every error response.
state_after_closing(st, rsp) == IF rsp.ok THEN st ELSE "Closing"

\* Lines 14-61 hold no assignment to self.state: the session state after a
\* command that returned rsp.  A panic ends the session's task.
state_after(st, rsp) == IF rsp = Panicked THEN "Closing" ELSE st

\* The handler returns rsp (or panics): the command is over.
Finish(rsp, nm, sz) ==
    /\ result' = rsp
    /\ pc' = "idle"
    /\ quiet' = TRUE
    /\ scripts' = store_after(scripts, nm, sz, rsp)
    /\ state' = state_after(state, rsp)

\* The dispatcher takes the next request of the session.  A session that is
\* not authenticated gets the authorization error and the handler is not
\* run.  Otherwise handle_havespace runs to its first suspension point:
\* lines 15-42, up to the storage call inside validate_name.
Receive(req) ==
    /\ pc = "idle"
    /\ state # "Closing"
    /\ tokens' = req
    /\ repeat_of' = IF quiet /\ req = tokens /\ result # NoResult
                    THEN [out |-> result, failed |-> failed]
                    ELSE NoRepeat
    /\ failed' = "none"
    /\ used_seen' = Absent
    /\ UNCHANGED <<overflow_checks, quota>>
    /\ IF ~may_run_handler(state)
       THEN /\ result' = ErrUnauthorized
            /\ quiet' = TRUE
            /\ calls' = <<>>
            /\ UNCHANGED <<state, scripts, pc>>
       ELSE IF sync_part(req) # Pending
       THEN /\ Finish(sync_part(req), parse_request(req).name,
                      parse_request(req).size)
            /\ calls' = <<>>
       ELSE /\ result' = Pending
            /\ pc' = "validate_name"
            /\ calls' = <<"nameExists">>
            /\ UNCHANGED <<state, scripts, quiet>>

\* validate_name(..).await? returns (line 42): a storage failure is
\* propagated; otherwise line 45 decides for an unlimited account, and any
\* other account goes on to the call of get_used_quota (lines 47-50).
ValidateNameReturn(io_ok) ==
    /\ pc = "validate_name"
    /\ UNCHANGED <<overflow_checks, quota, tokens, used_seen, repeat_of>>
    /\ IF ~io_ok
       THEN /\ failed' = "nameExists"
            /\ Finish(ErrStorage, name, size)
            /\ UNCHANGED calls
       ELSE IF is_unlimited(quota)
       THEN /\ Finish(StatusOk, name, size)
            /\ UNCHANGED <<calls, failed>>
       ELSE /\ pc' = "get_used_quota"
            /\ calls' = Append(calls, "usedQuota")
            /\ UNCHANGED <<state, scripts, result, failed, quiet>>

\* get_used_quota(..).await.caused_by(..)? returns (lines 47-51) and lines
\* 46-60 decide on it.
UsedQuotaReturn(io_ok) ==
    /\ pc = "get_used_quota"
    /\ UNCHANGED <<overflow_checks, quota, tokens, calls, repeat_of>>
    /\ failed' = IF io_ok THEN "none" ELSE "usedQuota"
    /\ used_seen' = IF io_ok THEN used_quota(scripts) ELSE Absent
    /\ Finish(after_used_quota(io_ok, size, used_quota(scripts), quota),
              name, size)

\* ------------------------------------------------------------ environment
\* The auth collaborator authenticates the session with an access token.
Authenticate(q) ==
    /\ state = "NotAuthenticated"
    /\ pc = "idle"
    /\ state' = "Authenticated"
    /\ quota' = q
    /\ tokens' = <<>>
    /\ result' = NoResult
    /\ calls' = <<>>
    /\ quiet' = TRUE
    /\ UNCHANGED <<overflow_checks, scripts, pc, failed, used_seen,
                   repeat_of>>

\* Another session of the account stores (or replaces) a script.
StoreScript(nm, sz) ==
    /\ used_quota([scripts EXCEPT ![nm] = sz]) <= I64Max
    /\ scripts[nm] # sz
    /\ scripts' = [scripts EXCEPT ![nm] = sz]
    /\ quiet' = FALSE
    /\ repeat_of' = NoRepeat
    /\ UNCHANGED <<overflow_checks, state, quota, pc, tokens, result, calls,
                   failed, used_seen>>

\* Another session of the account deletes a script.
DeleteScript(nm) ==
    /\ scripts[nm] # Absent
    /\ scripts' = [scripts EXCEPT ![nm] = Absent]
    /\ quiet' = FALSE
    /\ repeat_of' = NoRepeat
    /\ UNCHANGED <<overflow_checks, state, quota, pc, tokens, result, calls,
                   failed, used_seen>>

\* The connection closes: a command in flight is abandoned where it is
\* suspended, and the session is dropped with what it held.
ConnectionClose ==
    /\ state # "Closing"
    /\ state' = "Closing"
    /\ pc' = "idle"
    /\ result' = IF pc = "idle" THEN NoResult ELSE Abandoned
    /\ quota' = 0
    /\ tokens' = <<>>
    /\ failed' = "none"
    /\ used_seen' = Absent
    /\ repeat_of' = NoRepeat
    /\ quiet' = TRUE
    /\ UNCHANGED <<overflow_checks, scripts, calls>>

\* ---------------------------------------------------------- specification
Init ==
    /\ overflow_checks \in BOOLEAN
    /\ state = "NotAuthenticated"
    /\ quota = 0
    /\ scripts \in {st \in [StoredNames -> ScriptSizes \cup {Absent}] :
                      used_quota(st) <= I64Max}
    /\ pc = "idle"
    /\ tokens = <<>>
    /\ result = NoResult
    /\ calls = <<>>
    /\ failed = "none"
    /\ used_seen = Absent
    /\ repeat_of = NoRepeat
    /\ quiet = TRUE
    /\ arrived = 0
    /\ accepted = 0
    /\ running = {}
    /\ outbox = <<>>

\* One session and its handler, the wire left aside.
Next ==
    \/ \E req \in Requests : Receive(req) /\ UNCHANGED wire
    \/ \E io_ok \in BOOLEAN : ValidateNameReturn(io_ok) /\ UNCHANGED wire
    \/ \E io_ok \in BOOLEAN : UsedQuotaReturn(io_ok) /\ UNCHANGED wire
    \/ \E q \in Quotas : Authenticate(q) /\ UNCHANGED wire
    \/ \E nm \in StoredNames, sz \in ScriptSizes :
           StoreScript(nm, sz) /\ UNCHANGED wire
    \/ \E nm \in StoredNames : DeleteScript(nm) /\ UNCHANGED wire
    \/ ConnectionClose /\ UNCHANGED wire

Spec == Init /\ [][Next]_vars

\* ------------------------------------------------- the session on the wire
\* The requests a pipelining client sends.
FlightRequests ==
    {<<>>, <<<<"s">>, <<"1">>>>, <<<<"s">>, ToDec(I64Max)>>,
     <<<<"s", "/">>, <<"1">>>>}

\* The command the handler is running: the last one taken.
current == accepted

\* What a step of the handler leaves on the wire for the command id: the
\* response when the handler has returned one, nothing while it is suspended
\* and nothing when the session's task has panicked.
Respond(id) ==
    IF pc' # "idle"
    THEN /\ running' = running \cup {id}
         /\ outbox' = outbox
    ELSE /\ running' = running \ {id}
         /\ outbox' = IF result' = Panicked THEN outbox ELSE Append(outbox, id)

\* The client sends one more request; it waits until the session takes it.
ClientSend ==
    /\ state # "Closing"
    /\ arrived < MaxCommands
    /\ arrived' = arrived + 1
    /\ UNCHANGED <<overflow_checks, state, quota, scripts, pc, tokens, result,
                   calls, failed, used_seen, repeat_of, quiet, accepted,
                   running, outbox>>

\* The session takes the oldest waiting request and calls the handler with
\* `&mut self` (line 14): no other command of the session can be running.
Accept(req) ==
    /\ accepted < arrived
    /\ Receive(req)
    /\ accepted' = accepted + 1
    /\ arrived' = arrived
    /\ Respond(accepted + 1)

ResumeValidateName(io_ok) ==
    /\ ValidateNameReturn(io_ok)
    /\ UNCHANGED <<arrived, accepted>>
    /\ Respond(current)

ResumeUsedQuota(io_ok) ==
    /\ UsedQuotaReturn(io_ok)
    /\ UNCHANGED <<arrived, accepted>>
    /\ Respond(current)

\* The connection closes: the command in flight is dropped with the session.
Hangup ==
    /\ ConnectionClose
    /\ running' = {}
    /\ UNCHANGED <<arrived, accepted, outbox>>

NextFlight ==
    \/ ClientSend
    \/ \E req \in FlightRequests : Accept(req)
    \/ \E io_ok \in BOOLEAN : ResumeValidateName(io_ok)
    \/ \E io_ok \in BOOLEAN : ResumeUsedQuota(io_ok)
    \/ Hangup
    \/ \E q \in Quotas : Authenticate(q) /\ UNCHANGED wire
    \/ \E nm \in StoredNames, sz \in ScriptSizes :
           StoreScript(nm, sz) /\ UNCHANGED wire
    \/ \E nm \in StoredNames : DeleteScript(nm) /\ UNCHANGED wire

SpecFlight == Init /\ [][NextFlight]_vars

\* ------------------------------------------------------ claims: helpers
\* A command has ended with what `result` holds (a response, or the panic).
Done == pc = "idle" /\ result \notin {NoResult, Pending, Abandoned}

\* handle_havespace ran and ended.
HandlerDone == Done /\ result # ErrUnauthorized

\* Both tokens were parsed (lines 15-37 returned no error).
Parsed == parse_request(tokens).err = NoResult

\* The Name Validator accepted the name: its rules hold and its storage call
\* did not fail.
NameValidated == name_rules_ok(name) /\ failed # "nameExists"

\* The integer a token denotes in decimal notation, if it denotes one: an
\* optional sign and at least one digit, of any magnitude.
AllDigits(str, from) ==
    /\ from <= Len(str)
    /\ \A i \in from..Len(str) : IsDigit(str[i])

EncodesInt(str) ==
    \/ AllDigits(str, 1)
    \/ Len(str) >= 2 /\ str[1] \in {"+", "-"} /\ AllDigits(str, 2)

RECURSIVE DecValue(_, _, _)
DecValue(str, i, acc) ==
    IF i > Len(str) THEN acc
    ELSE DecValue(str, i + 1, acc * 10 + DigitVal[str[i]])

IntOf(str) ==
    IF str[1] = "-" THEN 0 - DecValue(str, 2, 0)
    ELSE IF str[1] = "+" THEN DecValue(str, 2, 0)
    ELSE DecValue(str, 1, 0)

\* --------------------------------------------------------------- claims
\* C1: with a ceiling Q > 0, a valid name, a parsed size S and the value U the
\* oracle returned, the check returns Ok iff S + U <= Q and the error with
\* the code QuotaMaxSize iff S + U > Q.
C1_QuotaDecision ==
    (HandlerDone /\ quota > 0 /\ Parsed /\ NameValidated /\ used_seen # Absent)
        => /\ (result = StatusOk) <=> (size + used_seen <= quota)
           /\ (~result.ok /\ result.code = QuotaMaxSize)
                  <=> (size + used_seen > quota)

\* C1 away from the wrap-around: the same statement for the sizes and sums
\* that fit the signed word.
QuotaDecisionInRange ==
    (HandlerDone /\ quota > 0 /\ Parsed /\ NameValidated /\ used_seen # Absent
     /\ size + used_seen <= I64Max)
        => /\ (result = StatusOk) <=> (size + used_seen <= quota)
           /\ (result = ErrQuotaExceeded) <=> (size + used_seen > quota)

\* C2: with a ceiling of 0 the check of a parsed size and a validated name
\* returns Ok whatever the usage is, and get_used_quota is never called (the
\* handler is never suspended on it), so its failure cannot reach the result.
C2_UnlimitedNoOracle ==
    (state = "Authenticated" /\ quota = 0)
        => /\ pc # "get_used_quota"
           /\ \A i \in 1..Len(calls) : calls[i] # "usedQuota"
           /\ (HandlerDone /\ Parsed /\ NameValidated) => result = StatusOk

C2_Witness ==
    /\ state = "Authenticated" /\ quota = 0
    /\ HandlerDone /\ result = StatusOk
    /\ calls = <<"nameExists">>
    /\ size > I64Max
    /\ used_quota(scripts) > 0

\* C3: a size token that denotes a negative integer, or one that does not fit
\* the signed word, is rejected with the invalid-size syntax error; with a
\* ceiling > 0 the sum size + usedQuota neither overflows nor wraps; and the
\* check never returns Ok for such a size.
C3_LargeSizeRejected ==
    /\ (HandlerDone /\ Len(tokens) >= 2 /\ EncodesInt(tokens[2])
        /\ (IntOf(tokens[2]) < 0 \/ IntOf(tokens[2]) > I64Max))
           => result = ErrInvalidSize
    /\ (HandlerDone /\ quota > 0 /\ used_seen # Absent)
           => /\ as_i64(size) = size
              /\ as_i64(size) + used_seen <= I64Max

\* C4 as claimed: an invalid name with a size token that is a syntactically
\* valid integer returns InvalidName, whatever the ceiling and the usage.
C4_InvalidNameAnyInteger ==
    (HandlerDone /\ Len(tokens) >= 2 /\ ~name_rules_ok(tokens[1])
     /\ EncodesInt(tokens[2]))
        => result = ErrInvalidName

\* C4 as amended: an invalid name with a size token that parses as a size (an
\* optional "+" and decimal digits, of a value that fits usize) returns
\* InvalidName and never QuotaExceeded, whatever the ceiling and the usage.
C4_InvalidNameParsedSize ==
    (HandlerDone /\ Len(tokens) >= 2 /\ ~name_rules_ok(tokens[1])
     /\ parse_usize(tokens[2]).ok)
        => /\ result = ErrInvalidName
           /\ result.code # QuotaMaxSize

C4_Witness ==
    /\ HandlerDone /\ result = ErrInvalidName
    /\ Parsed /\ quota > 0
    /\ size + used_quota(scripts) > quota

\* C5: without a name token the result is the missing-name error; with a name
\* token and no size token it is the missing-size error; never Ok, a quota
\* error or a name error.
C5_MissingParameter ==
    /\ (HandlerDone /\ Len(tokens) = 0) => result = ErrExpectedName
    /\ (HandlerDone /\ Len(tokens) = 1)
           => /\ result = ErrExpectedSize
              /\ result # ErrExpectedName

C5_Witness ==
    /\ HandlerDone /\ Len(tokens) = 1
    /\ ~name_rules_ok(tokens[1])
    /\ result = ErrExpectedSize

\* C6: a size token that is present and does not parse fails with the
\* invalid-size error, which is not a missing-parameter error, whatever the
\* name, the ceiling and the usage are.
C6_InvalidSize ==
    (HandlerDone /\ Len(tokens) >= 2 /\ ~parse_usize(tokens[2]).ok)
        => /\ result = ErrInvalidSize
           /\ result \notin {ErrExpectedName, ErrExpectedSize}

C6_Witness ==
    /\ HandlerDone /\ result = ErrInvalidSize
    /\ Len(tokens) = 2 /\ name_rules_ok(tokens[1])
    /\ tokens[2] = <<"1", "a">>
    /\ quota > 0 /\ used_quota(scripts) > quota

\* C7: when a storage call of the command has failed, the command's result is
\* an error, and not the quota-exceeded one.
C7_StorageFailureSurfaces ==
    (Done /\ failed # "none")
        => /\ ~result.ok
           /\ result.code # QuotaMaxSize
           /\ result = ErrStorage

C7_Witness ==
    /\ Done /\ failed = "usedQuota"
    /\ result = ErrStorage
    /\ size + used_quota(scripts) <= quota

\* C8: no step of the command (the dispatch, the return of either storage
\* call, the abandonment when the connection closes) changes the account's
\* script store or its used-quota figure: a step that changes either is a
\* write of another session.
HandlerStep ==
    \/ Receive(tokens')
    \/ \E io_ok \in BOOLEAN : ValidateNameReturn(io_ok)
    \/ \E io_ok \in BOOLEAN : UsedQuotaReturn(io_ok)
    \/ ConnectionClose

C8_ReadOnly ==
    [][(scripts' # scripts \/ used_quota(scripts') # used_quota(scripts))
           => ~HandlerStep]_vars

C8_Witness ==
    /\ state = "Closing" /\ result = Abandoned
    /\ calls = <<"nameExists", "usedQuota">>
    /\ used_quota(scripts) > 0

\* C9 as claimed: the same request repeated with no write in between gets the
\* outcome the previous one got.
C9_SameOutcomeNoWrite ==
    (Done /\ repeat_of # NoRepeat) => result = repeat_of.out

\* C9 as amended: the same request repeated with no write in between, and
\* with the same storage call failing (or none) both times, gets the outcome
\* the previous one got.
C9_Idempotent ==
    (Done /\ repeat_of # NoRepeat /\ failed = repeat_of.failed)
        => result = repeat_of.out

C9_Witness ==
    /\ Done /\ repeat_of # NoRepeat /\ failed = repeat_of.failed
    /\ result = ErrQuotaExceeded
    /\ repeat_of.out = ErrQuotaExceeded

\* C10: a request of a session that is not authenticated gets the
\* authorization error, no storage call is made for it, and the session is
\* still not authenticated afterwards.
C10_Unauthenticated ==
    /\ state = "NotAuthenticated"
           => /\ pc = "idle"
              /\ calls = <<>>
              /\ result \in {NoResult, ErrUnauthorized}
    /\ result = ErrUnauthorized
           => /\ state = "NotAuthenticated"
              /\ calls = <<>>
              /\ used_seen = Absent

C10_Witness ==
    /\ state = "NotAuthenticated"
    /\ result = ErrUnauthorized
    /\ Parsed /\ name_rules_ok(name)

\* C11: a check with a ceiling > 0 decides on the used-quota value committed
\* when its own get_used_quota call was answered: it returns Ok iff size +
\* that value <= ceiling.
C11_DecidesOnValueAtCall ==
    (HandlerDone /\ quota > 0 /\ used_seen # Absent)
        => ((result = StatusOk) <=> (size + used_seen <= quota))

\* C11, the part on later writes: a write of another session leaves the
\* result of a command that has ended as it is.
LaterWriteKeepsResult ==
    [][scripts' # scripts => (result' = result /\ used_seen' = used_seen)]_vars

\* The error results of a capacity check that C12 names.
CommandErrors ==
    {ErrExpectedName, ErrExpectedSize, ErrInvalidSize, ErrInvalidName,
     ErrQuotaExceeded}

\* C12: a step of the handler that ends the command with a missing-parameter,
\* invalid-size, invalid-name or quota-exceeded error leaves the session
\* Authenticated and idle, with the same access token, and leaves everything
\* the handling of the next request reads (session state, ceiling, script
\* store, build) as it was before the step.
C12_ErrorTerminalForCommandOnly ==
    [][(result' \in CommandErrors /\ HandlerStep)
          => /\ state = "Authenticated"
             /\ state' = "Authenticated"
             /\ pc' = "idle"
             /\ quota' = quota
             /\ scripts' = scripts
             /\ overflow_checks' = overflow_checks]_vars

\* A quota-exceeded error was returned and the session goes on.
C12_Witness ==
    /\ result = ErrQuotaExceeded
    /\ state = "Authenticated"
    /\ pc = "idle"
    /\ quota > 0

\* C14: the storage calls of a command are nameExists, then usedQuota, each at
\* most once.  A command whose tokens did not parse made no storage call and
\* got the syntax error of the parsing, whatever the name is; usedQuota was
\* called only for parsed tokens, a validated name and a ceiling other than 0.
C14_CallOrder ==
    (state = "Authenticated" \/ result = Panicked)
        => /\ calls \in {<<>>, <<"nameExists">>, <<"nameExists", "usedQuota">>}
           /\ ~Parsed
                 => /\ calls = <<>>
                    /\ result \in {NoResult, parse_request(tokens).err}
                    /\ result # ErrInvalidName
           /\ (\E i \in 1..Len(calls) : calls[i] = "usedQuota")
                 => (Parsed /\ NameValidated /\ quota # 0)

\* An invalid name with a size token that does not parse: the syntax error,
\* and no storage call.
C14_Witness ==
    /\ HandlerDone /\ Len(tokens) = 2
    /\ ~name_rules_ok(tokens[1])
    /\ ~parse_usize(tokens[2]).ok
    /\ result = ErrInvalidSize
    /\ calls = <<>>

Prefix2(toks) == SubSeq(toks, 1, IF Len(toks) < 2 THEN Len(toks) ELSE 2)

\* The outcome of the request toks in the state the current command ran in:
\* the ceiling, the storage call that failed (if one did) and the usage read.
OutcomeOf(toks) ==
    IF sync_part(toks) # Pending THEN sync_part(toks)
    ELSE IF failed = "nameExists" THEN ErrStorage
    ELSE IF is_unlimited(quota) THEN StatusOk
    ELSE after_used_quota(failed # "usedQuota", parse_request(toks).size,
                          used_seen, quota)

SyntaxErrors == {ErrExpectedName, ErrExpectedSize, ErrInvalidSize}

\* C16: the result of a command is the outcome of the request made of its
\* first two tokens alone, in the same state; a request of more than two
\* tokens gets a syntax error only if its first two tokens alone get it.
C16_FirstTwoTokensOnly ==
    HandlerDone
        => /\ result = OutcomeOf(Prefix2(tokens))
           /\ (Len(tokens) > 2 /\ result \in SyntaxErrors)
                 => result = parse_request(Prefix2(tokens)).err

\* A request of three tokens went through both storage calls and got Ok.
C16_Witness ==
    /\ HandlerDone /\ Len(tokens) = 3
    /\ result = StatusOk
    /\ calls = <<"nameExists", "usedQuota">>

\* C13: the session never has two commands in progress; once a command is
\* over (and the client has not hung up on it) every request taken so far
\* has exactly one response; and the responses are written in the order the
\* requests were sent, while the writes of other sessions interleave.
C13_SingleFlight ==
    /\ Cardinality(running) <= 1
    /\ (pc = "idle" /\ result # Abandoned)
          => (running = {} /\ Len(outbox) = accepted)
    /\ outbox = [i \in 1..Len(outbox) |-> i]

\* C13 for the commands whose handler returns: at most one command in
\* progress, never more responses than requests taken, one response for each
\* request taken once the handler has returned, all in the order sent.
SingleFlightWhenHandlerReturns ==
    /\ Cardinality(running) <= 1
    /\ running \subseteq {accepted}
    /\ (pc = "idle") <=> (running = {})
    /\ accepted <= arrived
    /\ Len(outbox) <= accepted
    /\ (pc = "idle" /\ result \notin {Abandoned, Panicked})
          => Len(outbox) = accepted
    /\ outbox = [i \in 1..Len(outbox) |-> i]

====
